---- MODULE Spec2Model ----
(***************************************************************************)
(* Field presence verification and progress integrity engine of vigil-gov. *)
(*                                                                         *)
(* The persistent store (Firestore) is the state: the users directory, the *)
(* project's visits, events and payments collections, the stage documents  *)
(* of a package and the denormalised aggregates of the package and project *)
(* documents.  Every API handler is one action: requests are handled one   *)
(* at a time, each handler reads the clock (Date.now()) and the store and  *)
(* writes what its code writes.  A handler that answers with an error has  *)
(* written nothing: its step leaves the store as it was.                   *)
(*                                                                         *)
(* Percentages of stages are whole percents; the physicalPercent and       *)
(* financialPercent aggregates are kept in hundredths of a percent (7400   *)
(* is 74.00), which is exact for the inputs used here.                     *)
(***************************************************************************)
EXTENDS Integers, Sequences, FiniteSets, TLC

\* ------------------------------------------------------------------ bounds
MaxVisits == 2
MaxStages == 1
MaxEvents == 2
MaxPayments == 1
MaxPackages == 2
MaxLedgerPayments == 3

\* ------------------------------------------------------- program constants
ONE_DAY == 24 * 60 * 60 * 1000
MINUTE == 60 * 1000
DEFAULT_FACE_MATCH_MIN_SCORE == 90

\* ------------------------------------------------------------ the fixtures
\* The clock readings at which requests arrive (milliseconds).  A visit made
\* at 0 is exactly 24h old at ONE_DAY and 24h01m old at ONE_DAY + MINUTE; one
\* made at ONE_DAY is a minute old at ONE_DAY + MINUTE.
Instants == {0, ONE_DAY, ONE_DAY + MINUTE}

\* The users directory (identity collaborator): officerCode -> role.
Users == {"je1", "je2", "sdo1", "ee1"}
Role(u) ==
  CASE u = "je1" -> "JE"
    [] u = "je2" -> "FE"
    [] u = "sdo1" -> "SDO"
    [] OTHER -> "EE"

\* One project with one package.  Projects are the project documents that
\* exist, ProjectIds the ids requests name.
Projects == {"p1"}
ProjectIds == {"p1"}
Packages == {"pkg1"}

NULL == "null"
NoTime == 0 - 1

VARIABLES
  users,      \* officerCode -> [photoUrl, masterFaceUrl] (enrolled or not)
  now,        \* the clock: the last Date.now() any handler has read
  visits,     \* projects/p1/visits, in the order written
  stages,     \* projects/p1/packages/pkg1/stages, in the order created
  events,     \* projects/p1/events, in the order written
  payments,   \* projects/p1/payments, in the order written
  pkgDoc,     \* projects/p1/packages/pkg1: amount and the two aggregates
  projDoc,    \* projects/p1: sanctionedAmount, geometry and the two aggregates
  call,       \* a library function under evaluation: its arguments and results
  inflight    \* the requests being served concurrently: each one's position
              \* in its handler and what it has read so far

vars == <<users, now, visits, stages, events, payments, pkgDoc, projDoc, call, inflight>>
store == <<users, visits, stages, events, payments, pkgDoc, projDoc, call, inflight>>

\* ------------------------------------------------------------ small helpers
Last(seq) == seq[Len(seq)]

Max(a, b) == IF a >= b THEN a ELSE b

Min(a, b) == IF a <= b THEN a ELSE b

\* ------------------------------------------------------------- FaceMatchGate
\* The deployments a request can be served by: production, development with
\* the bypass flag, production with a stricter configured minimum score.
\* minScore 0 stands for FACE_MATCH_MIN_SCORE unset, empty, "0" or not a
\* number, all of which Number(..) || 90 turns into 90.
Envs ==
  { [ALLOW_FAKE_FACE_MATCH |-> FALSE, rekognition |-> TRUE, minScore |-> 0],
    [ALLOW_FAKE_FACE_MATCH |-> TRUE, rekognition |-> FALSE, minScore |-> 0],
    [ALLOW_FAKE_FACE_MATCH |-> FALSE, rekognition |-> TRUE, minScore |-> 95] }

\* What the face-comparison service does with a request: it fails, or the two
\* faces have this similarity (0..100).
ServiceError == 0 - 1
FaceOutcomes == {ServiceError, 89, 90, 95}

FaceThreshold(env) ==
  IF env.minScore = 0 THEN DEFAULT_FACE_MATCH_MIN_SCORE ELSE env.minScore

\* CompareFaces returns a match only at or above SimilarityThreshold; without
\* a match the handler takes the similarity to be 0.
ReturnedSimilarity(outcome, threshold) ==
  IF outcome >= threshold THEN outcome ELSE 0

FaceMatchOnError_FailOpen(env, outcome) ==
  IF env.ALLOW_FAKE_FACE_MATCH THEN TRUE
  ELSE IF ~env.rekognition THEN FALSE
  ELSE IF outcome = ServiceError THEN TRUE
  ELSE ReturnedSimilarity(outcome, FaceThreshold(env)) >= FaceThreshold(env)

performHighSecurityFaceMatch(env, outcome) ==
  IF env.ALLOW_FAKE_FACE_MATCH THEN TRUE
  ELSE IF ~env.rekognition THEN FALSE
  ELSE IF outcome = ServiceError THEN FALSE
  ELSE ReturnedSimilarity(outcome, FaceThreshold(env)) >= FaceThreshold(env)

\* The decisions the gate can return to the visit handler, over every
\* deployment and every behaviour of the service.
FaceDecisions ==
  {performHighSecurityFaceMatch(env, outcome) : env \in Envs, outcome \in FaceOutcomes}

\* --------------------------------------------------------------- GeoVerifier
\* A reported GPS fix is one of these places; NoCoords is a request without
\* usable lat/lng.  haversineMeters is tabulated for the places used: the
\* distance in metres, rounded, between a fix and a configured point.
NoCoords == "none"
Locations == {"atCentre", "outside"}

\* The places used lie on one straight road: metres from the site centre.
PosOf(place) ==
  CASE place = "centre" -> 0
    [] place = "atCentre" -> 0
    [] place = "onRadius" -> 200
    [] place = "outside" -> 230
    [] place = "onMargin" -> 250
    [] place = "beyondMargin" -> 251
    [] place = "km1" -> 1000
    [] place = "onCorridor" -> 1300
    [] place = "midway" -> 1500
    [] place = "km2" -> 2000
    [] OTHER -> 9000

haversineMeters(loc, point) ==
  IF PosOf(loc) >= PosOf(point) THEN PosOf(loc) - PosOf(point)
  ELSE PosOf(point) - PosOf(loc)

NoGeo ==
  [geoVerified |-> FALSE, geoMethod |-> "NONE", distanceMeters |-> NoTime,
   routePointId |-> NULL]

PointRadius_StrictlyInside(loc, project) ==
  LET d == haversineMeters(loc, project.siteCenter)
  IN [geoVerified |-> d < project.siteRadiusMeters,
      geoMethod |-> "POINT_RADIUS", distanceMeters |-> d, routePointId |-> NULL]

PointRadius(loc, project) ==
  LET d == haversineMeters(loc, project.siteCenter)
  IN [geoVerified |-> d <= project.siteRadiusMeters,
      geoMethod |-> "POINT_RADIUS", distanceMeters |-> d, routePointId |-> NULL]

\* A route point is [id, place, active]; place is NoCoords when lat/lng are
\* not numbers, active is FALSE only for active === false.
\* activePoints.length > 0 ? activePoints : project.routePoints
CorridorPoints(routePoints) ==
  IF SelectSeq(routePoints, LAMBDA rp : rp.active) # << >>
  THEN SelectSeq(routePoints, LAMBDA rp : rp.active)
  ELSE routePoints

NearestRoutePoint_FirstUsable(points, loc) ==
  IF \E i \in 1..Len(points) : points[i].place # NoCoords
  THEN CHOOSE i \in 1..Len(points) :
         /\ points[i].place # NoCoords
         /\ \A j \in 1..(i - 1) : points[j].place = NoCoords
  ELSE 0

\* The loop over points from index k on; best is the index of bestRp so far
\* (0 while bestDist is Infinity).  Returns the index of bestRp, or 0.
RECURSIVE NearestFrom(_, _, _, _)
NearestFrom(points, loc, k, best) ==
  IF k > Len(points) THEN best
  ELSE IF points[k].place # NoCoords
          /\ (best = 0 \/ haversineMeters(loc, points[k].place)
                            < haversineMeters(loc, points[best].place))
       THEN NearestFrom(points, loc, k + 1, k)
       ELSE NearestFrom(points, loc, k + 1, best)

\* The index in points of bestRp after the whole loop, 0 for null.
NearestRoutePoint(points, loc) == NearestFrom(points, loc, 1, 0)

DEFAULT_CORRIDOR_METERS == 300

RouteCorridor(loc, project, bestRp) ==
  LET bestDist == haversineMeters(loc, bestRp.place)
      corridor == IF project.siteRadiusMeters # NoTime
                  THEN project.siteRadiusMeters ELSE DEFAULT_CORRIDOR_METERS
  IN [geoVerified |-> bestDist <= corridor, geoMethod |-> "ROUTE_CORRIDOR",
      distanceMeters |-> bestDist, routePointId |-> bestRp.id]

\* The geo step of the visit handler.
GeoVerify(vt, loc, project) ==
  IF vt = "site" /\ loc # NoCoords
  THEN IF project.projectType = "LINEAR" /\ project.routePoints # << >>
       THEN LET points == CorridorPoints(project.routePoints)
                best == NearestRoutePoint(points, loc)
            IN IF best # 0
               THEN RouteCorridor(loc, project, points[best])
               ELSE IF project.siteCenter # NULL /\ project.siteRadiusMeters # NoTime
               THEN PointRadius(loc, project)
               ELSE NoGeo
       ELSE IF project.siteCenter # NULL /\ project.siteRadiusMeters # NoTime
       THEN PointRadius(loc, project)
       ELSE NoGeo
  ELSE NoGeo

\* ------------------------------------------------------------------- Init
\* The store after the supervisory roles have set up the directory, the
\* project (a POINT project with a 200 m radius) and its package: je1 has
\* enrolled a reference image, the others have not yet.
\* Money is in lakh of rupees (sanctioned 100 lakh, package 10 lakh).
\* No library function is under evaluation while the handlers run.
NoCall == [fn |-> "none"]

\* No request is in flight.
NoRequests == << >>

\* je1 is the one officer enrolled at the start.
InitUsers ==
  [u \in Users |->
     [photoUrl |-> u = "je1", masterFaceUrl |-> u = "je1"]]

InitProject ==
  [sanctionedAmount |-> 100, siteCenter |-> "centre",
   siteRadiusMeters |-> 200, physicalPercent |-> 0, financialPercent |-> 0,
   projectType |-> "POINT", routePoints |-> << >>]

InitPackage ==
  [amount |-> 10, ownerJeId |-> "je1",
   physicalPercent |-> 0, financialPercent |-> 0]

Init ==
  /\ users = InitUsers
  /\ now = 0
  /\ visits = << >>
  /\ stages = << >>
  /\ events = << >>
  /\ payments = << >>
  /\ pkgDoc = InitPackage
  /\ projDoc = InitProject
  /\ call = NoCall
  /\ inflight = NoRequests

\* A handler that answers with an error (HTTP status, message) has written
\* nothing.
Reject(op, by, status, error) == UNCHANGED vars

\* Time passes between requests.
Tick ==
  \E t \in Instants :
    /\ t > now
    /\ now' = t
    /\ UNCHANGED store

\* ----------------------------------------------- POST /api/user/upload-face
Enrollers == {"sdo1"}

UploadFace ==
  \E a \in Enrollers :
    /\ users' = [users EXCEPT ![a] = [photoUrl |-> TRUE, masterFaceUrl |-> TRUE]]
    /\ UNCHANGED <<now, visits, stages, events, payments, pkgDoc, projDoc, call, inflight>>

\* ------------------------------------------------------- POST /api/visits
AllowedVisitRoles == {"JE", "FE", "SDO", "EE", "SE", "CE", "ADMIN", "PS"}
VisitTypeInputs == {"site", "office"}

VisitEvent_FaceUnverified(a, t, vt, faceVerified, geo) ==
  [createdBy |-> a, createdAt |-> t, visitType |-> vt,
   faceVerified |-> FALSE, geoVerified |-> geo.geoVerified,
   geoMethod |-> geo.geoMethod, distanceMeters |-> geo.distanceMeters,
   routePointId |-> geo.routePointId]

\* The visit document the handler writes.
VisitEvent(a, t, vt, faceVerified, geo) ==
  [createdBy |-> a, createdAt |-> t, visitType |-> vt,
   faceVerified |-> faceVerified, geoVerified |-> geo.geoVerified,
   geoMethod |-> geo.geoMethod, distanceMeters |-> geo.distanceMeters,
   routePointId |-> geo.routePointId]

Missing_Never(url) == FALSE

\* !user.photoUrl, !masterFaceUrl: no URL is stored.
Missing(url) == ~url

AppendVisit_OverwriteLast(vs, v) ==
  IF vs = << >> THEN <<v>> ELSE [vs EXCEPT ![Len(vs)] = v]

\* evtRef = collection("visits").doc(); evtRef.set(..): a new document.
AppendVisit(vs, v) == Append(vs, v)

\* The handler for one request with the GPS fix loc, given the decision
\* faceVerified that the face gate returns to it.  It has awaited the upload
\* and the face service: it writes at a clock reading t that no earlier visit
\* was written at.
VisitAtMost(a, visitType, faceVerified, loc, maxVisits) ==
  IF Role(a) \notin AllowedVisitRoles
  THEN Reject("visit", a, 403, "role_not_allowed")
  ELSE IF Missing(users[a].photoUrl)
  THEN Reject("visit", a, 400, "no_face_photo")
  ELSE IF visitType = ""
  THEN Reject("visit", a, 400, "projectId_visitType_required")
  ELSE IF Missing(users[a].masterFaceUrl)
  THEN Reject("visit", a, 400, "master_face_not_enrolled")
  ELSE IF ~faceVerified
  THEN Reject("visit", a, 403, "face_verification_failed")
  ELSE LET vt == IF visitType = "office" THEN "office" ELSE "site"
       IN \E t \in Instants :
            /\ t >= now
            /\ \A i \in 1..Len(visits) : visits[i].createdAt < t
            /\ Len(visits) < maxVisits
            /\ visits' = AppendVisit(visits,
                 VisitEvent(a, t, vt, faceVerified, GeoVerify(vt, loc, projDoc)))
            /\ now' = t
            /\ UNCHANGED <<users, stages, events, payments, pkgDoc, projDoc, call, inflight>>

VisitAt(a, visitType, faceVerified, loc) ==
  VisitAtMost(a, visitType, faceVerified, loc, MaxVisits)

VisitWith(a, visitType, faceVerified) ==
  \E loc \in Locations : VisitAt(a, visitType, faceVerified, loc)

\* The handler for one request served by deployment env, when the
\* face-comparison service behaves as outcome.
VisitRequest(a, visitType, env, outcome) ==
  VisitWith(a, visitType, performHighSecurityFaceMatch(env, outcome))

PostVisit ==
  \E a \in Users, visitType \in VisitTypeInputs, faceVerified \in FaceDecisions :
    VisitWith(a, visitType, faceVerified)

\* --------------------------------------------------------- VisitRecencyGuard
\* The query both guards run: visits of the project by this officer, ordered
\* by createdAt descending, limit 1.  0 when the query is empty.
VisitsBy(a) == {i \in 1..Len(visits) : visits[i].createdBy = a}

LatestVisitIdx_Earliest(a) ==
  IF VisitsBy(a) = {} THEN 0
  ELSE CHOOSE i \in VisitsBy(a) :
         \A j \in VisitsBy(a) : visits[j].createdAt >= visits[i].createdAt

LatestVisitIdx(a) ==
  IF VisitsBy(a) = {} THEN 0
  ELSE CHOOSE i \in VisitsBy(a) :
         \A j \in VisitsBy(a) : visits[j].createdAt <= visits[i].createdAt

ReportGateRejects_NoGeoCheck(lastVisit, t) ==
  \/ lastVisit.visitType # "site"
  \/ lastVisit.faceVerified # TRUE
  \/ t - lastVisit.createdAt > ONE_DAY

ReportGateRejects_ExclusiveWindow(lastVisit, t) ==
  \/ lastVisit.visitType # "site"
  \/ lastVisit.faceVerified # TRUE
  \/ lastVisit.geoVerified # TRUE
  \/ t - lastVisit.createdAt >= ONE_DAY

\* pages/api/events.ts: the condition under which the progress upload is
\* refused, given the officer's last visit and Date.now().
ReportGateRejects(lastVisit, t) ==
  \/ lastVisit.visitType # "site"
  \/ lastVisit.faceVerified # TRUE
  \/ lastVisit.geoVerified # TRUE
  \/ t - lastVisit.createdAt > ONE_DAY

VerifyGateRejects_NoRecencyCheck(lastVisit, t) ==
  lastVisit.faceVerified # TRUE

\* pages/api/sdo/verify-stage.ts: the condition under which the verification
\* is refused.
VerifyGateRejects(lastVisit, t) ==
  \/ lastVisit.faceVerified # TRUE
  \/ t - lastVisit.createdAt > ONE_DAY

VerificationSourceOf_TypeOnly(lastVisit) ==
  IF lastVisit.visitType = "site" THEN "site" ELSE "office"

\* verify-stage.ts: the tag stamped from the verifier's last visit.
VerificationSourceOf(lastVisit) ==
  IF lastVisit.visitType = "site" /\ lastVisit.geoVerified THEN "site" ELSE "office"

\* ------------------------------------------------- POST /api/ee/create-stage
StageWeightInputs == {0, 60}

NewStage(w) ==
  [weightPercent |-> w, reportedProgressPercent |-> 0,
   verifiedProgressPercent |-> 0, verificationSource |-> "unknown",
   lastReportedBy |-> NULL, lastReportedAt |-> NoTime,
   lastVerifiedBy |-> NULL, lastVerifiedAt |-> NoTime]

\* The handler for one request; maxStages caps the stages of a run.
CreateStageRequest(a, projectId, w, maxStages) ==
  IF Role(a) # "EE" /\ Role(a) # "ADMIN"
  THEN Reject("create-stage", a, 403, "access_denied")
  ELSE IF w <= 0
  THEN Reject("create-stage", a, 400, "invalid_weightPercent")
  ELSE IF projectId \notin Projects
  THEN Reject("create-stage", a, 404, "project_not_found")
  ELSE /\ Len(stages) < maxStages
       /\ stages' = Append(stages, NewStage(w))
       /\ UNCHANGED <<users, now, visits, events, payments, pkgDoc, projDoc, call, inflight>>

CreateStage ==
  \E a \in Users, projectId \in ProjectIds, w \in StageWeightInputs :
    CreateStageRequest(a, projectId, w, MaxStages)

\* ------------------------------------------------------- POST /api/events
isFieldRole(role) == role = "JE" \/ role = "FE"

\* jePercent after Number(): not a number, or a number.
NotANumber == [isNaN |-> TRUE, n |-> 0]
Num(n) == [isNaN |-> FALSE, n |-> n]
JePercentInputs == {NotANumber, Num(0 - 10), Num(50)}

BoundedPercent(n) == Max(0, Min(100, n))

\* The photo-audit advisory: the service fails, or returns an advisory.
AiOutcomes == {"error", "flagged"}

StageIds == 1..MaxStages
EventIds == 1..MaxEvents

CurrentReported(stage) == stage.reportedProgressPercent

ReduceRejected_Dropped(boundedPercent, currentReported) == FALSE

\* The monotonicity check: the upload is refused when it lowers the value.
ReduceRejected(boundedPercent, currentReported) ==
  boundedPercent < currentReported

ProgressEvent_KeepsFailedAudit(a, t, stageId, boundedPercent, ai) ==
  [id |-> Len(events) + 1, eventType |-> "progress", packageId |-> "pkg1",
   stageId |-> stageId, createdBy |-> a, createdAt |-> t,
   reportedProgressPercent |-> boundedPercent,
   ai |-> ai,
   jeComment |-> "", sdoVerifiedPercent |-> NoTime,
   sdoVerifiedBy |-> NULL, verificationSource |-> NULL]

\* eventData: the advisory fields are set only if (aiResult); ai is NULL for
\* an event written without them.
ProgressEvent(a, t, stageId, boundedPercent, ai) ==
  [id |-> Len(events) + 1, eventType |-> "progress", packageId |-> "pkg1",
   stageId |-> stageId, createdBy |-> a, createdAt |-> t,
   reportedProgressPercent |-> boundedPercent,
   ai |-> IF ai = "error" THEN NULL ELSE ai,
   jeComment |-> "", sdoVerifiedPercent |-> NoTime,
   sdoVerifiedBy |-> NULL, verificationSource |-> NULL]

StageAfterReport_ResetsVerified(stage, a, boundedPercent, t) ==
  [stage EXCEPT !.reportedProgressPercent = boundedPercent,
                !.lastReportedBy = a,
                !.lastReportedAt = t,
                !.verifiedProgressPercent = 0,
                !.verificationSource = "unknown"]

StageAfterReport_Merges(stage, a, boundedPercent, t) ==
  [stage EXCEPT !.reportedProgressPercent =
                   Max(stage.reportedProgressPercent, boundedPercent),
                !.lastReportedBy = a,
                !.lastReportedAt = t]

\* stageRef.update({reportedProgressPercent, lastReportedBy, lastReportedAt}).
StageAfterReport(stage, a, boundedPercent, t) ==
  [stage EXCEPT !.reportedProgressPercent = boundedPercent,
                !.lastReportedBy = a,
                !.lastReportedAt = t]

\* The handler for one request whose photo audit ends as ai: the service
\* fails ("error", caught: aiResult = null) or returns that advisory.  The
\* photo may be missing and the upload may fail.
ReportWith(a, projectId, stageId, parsed, ai) ==
  IF ~isFieldRole(Role(a))
  THEN Reject("report", a, 403, "only_je_fe")
  ELSE IF parsed.isNaN
  THEN Reject("report", a, 400, "invalid_percent")
  ELSE IF projectId \notin Projects \/ LatestVisitIdx(a) = 0
  THEN Reject("report", a, 403, "no_visit")
  ELSE IF ReportGateRejects(visits[LatestVisitIdx(a)], now)
  THEN Reject("report", a, 403, "visit_gate")
  ELSE \E photo \in BOOLEAN, uploadOk \in BOOLEAN :
    IF ~photo
    THEN Reject("report", a, 400, "photo_required")
    ELSE IF ~uploadOk
    THEN Reject("report", a, 500, "internal")
    ELSE IF stageId \notin 1..Len(stages)
    THEN Reject("report", a, 404, "stage_not_found")
    ELSE IF ReduceRejected(BoundedPercent(parsed.n),
                           CurrentReported(stages[stageId]))
    THEN Reject("report", a, 400, "progress_cannot_be_reduced")
    ELSE
      /\ Len(events) < MaxEvents
      /\ events' = Append(events,
            ProgressEvent(a, now, stageId, BoundedPercent(parsed.n), ai))
      /\ stages' = [stages EXCEPT ![stageId] =
            StageAfterReport(@, a, BoundedPercent(parsed.n), now)]
      /\ UNCHANGED <<users, now, visits, payments, pkgDoc, projDoc, call, inflight>>

\* The handler for one request.
ReportRequest(a, projectId, stageId, parsed) ==
  \E ai \in AiOutcomes : ReportWith(a, projectId, stageId, parsed, ai)

ReportProgress ==
  \E a \in Users, projectId \in ProjectIds, stageId \in StageIds,
     parsed \in JePercentInputs :
    ReportRequest(a, projectId, stageId, parsed)

\* ------------------------------------------------ POST /api/sdo/verify-stage
isSDO(role) == role = "SDO"

SdoPercentInputs == {0, 40, 120}

EventAfterVerify_OverwritesReported(evt, a, verifiedPercent, source) ==
  [evt EXCEPT !.reportedProgressPercent = verifiedPercent,
              !.sdoVerifiedPercent = verifiedPercent,
              !.sdoVerifiedBy = a,
              !.verificationSource = source]

\* eventRef.update({sdoVerifiedPercent, sdoVerifiedBy, verificationSource}).
EventAfterVerify(evt, a, verifiedPercent, source) ==
  [evt EXCEPT !.sdoVerifiedPercent = verifiedPercent,
              !.sdoVerifiedBy = a,
              !.verificationSource = source]

StageAfterVerify_MirrorsReported(stage, a, verifiedPercent, source, t) ==
  [stage EXCEPT !.reportedProgressPercent = verifiedPercent,
                !.verifiedProgressPercent = verifiedPercent,
                !.verificationSource = source,
                !.lastVerifiedBy = a,
                !.lastVerifiedAt = t]

\* stageRef.update({verifiedProgressPercent, verificationSource,
\* lastVerifiedBy, lastVerifiedAt}).
StageAfterVerify(stage, a, verifiedPercent, source, t) ==
  [stage EXCEPT !.verifiedProgressPercent = verifiedPercent,
                !.verificationSource = source,
                !.lastVerifiedBy = a,
                !.lastVerifiedAt = t]

\* The handler for one request.
VerifyRequest(a, projectId, stageId, eventId, percent) ==
  IF ~isSDO(Role(a))
  THEN Reject("verify", a, 403, "sdo_only")
  ELSE IF percent < 0 \/ percent > 100
  THEN Reject("verify", a, 400, "invalid_percent")
  ELSE IF projectId \notin Projects \/ LatestVisitIdx(a) = 0
  THEN Reject("verify", a, 403, "no_visit")
  ELSE IF VerifyGateRejects(visits[LatestVisitIdx(a)], now)
  THEN Reject("verify", a, 403, "visit_gate")
  ELSE IF eventId \notin 1..Len(events)
  THEN Reject("verify", a, 404, "event_not_found")
  ELSE IF events[eventId].stageId # stageId
  THEN Reject("verify", a, 400, "event_does_not_match")
  ELSE LET source == VerificationSourceOf(visits[LatestVisitIdx(a)])
       IN /\ events' = [events EXCEPT ![eventId] =
               EventAfterVerify(@, a, percent, source)]
          /\ stages' = [stages EXCEPT ![stageId] =
               StageAfterVerify(@, a, percent, source, now)]
          /\ UNCHANGED <<users, now, visits, payments, pkgDoc, projDoc, call, inflight>>

VerifyStage ==
  \E a \in Users, projectId \in ProjectIds, stageId \in StageIds,
     eventId \in EventIds, percent \in SdoPercentInputs :
    VerifyRequest(a, projectId, stageId, eventId, percent)

\* --------------------------------------------- POST /api/je/comment-progress
\* jeComment after trim().
JeCommentInputs == {"revised"}

\* eventRef.update({jeComment}).
EventAfterComment(evt, jeComment) == [evt EXCEPT !.jeComment = jeComment]

CommentProgress ==
  \E a \in Users :
    IF ~isFieldRole(Role(a))
    THEN Reject("comment", a, 403, "only_je_fe")
    ELSE \E projectId \in ProjectIds, eventId \in EventIds, jeComment \in JeCommentInputs :
      IF projectId \notin Projects \/ eventId \notin 1..Len(events)
      THEN Reject("comment", a, 404, "event_not_found")
      ELSE IF events[eventId].createdBy # a
      THEN Reject("comment", a, 403, "not_your_event")
      ELSE /\ events' = [events EXCEPT ![eventId] = EventAfterComment(@, jeComment)]
           /\ UNCHANGED <<users, now, visits, stages, payments, pkgDoc, projDoc, call, inflight>>

\* ------------------------------------------------------ POST /api/payments
\* Percentages of money are kept in hundredths of a percent, as toFixed(2)
\* leaves them.
RECURSIVE TotalPaid(_)
TotalPaid(ps) ==
  IF ps = << >> THEN 0 ELSE ps[1].amount + TotalPaid(Tail(ps))

clampHundredths(v) == Max(0, Min(10000, v))

computeProjectFinancialPercent_Truncates(sanctionedAmount, ps) ==
  IF sanctionedAmount <= 0 THEN 0
  ELSE clampHundredths((TotalPaid(ps) * 10000) \div sanctionedAmount)

computeProjectFinancialPercent(sanctionedAmount, ps) ==
  IF sanctionedAmount <= 0 THEN 0
  ELSE clampHundredths((TotalPaid(ps) * 10000 + sanctionedAmount \div 2)
                         \div sanctionedAmount)

computePackageFinancialPercent(packageAmount, ps) ==
  IF packageAmount <= 0 THEN 0
  ELSE clampHundredths((TotalPaid(ps) * 10000 + packageAmount \div 2)
                         \div packageAmount)

PaymentAmountInputs == {0, 25}
PaymentPackageInputs == {"pkg1"}

\* The handler for one request; maxPayments bounds the ledger.
PaymentRequest(a, projectId, packageId, amount, maxPayments) ==
  IF ~(Role(a) = "EE" \/ Role(a) = "ADMIN")
  THEN Reject("payment", a, 403, "only_ee_admin")
  ELSE IF amount = 0
  THEN Reject("payment", a, 400, "fields_required")
  ELSE IF projectId \notin Projects
  THEN Reject("payment", a, 404, "project_not_found")
  ELSE LET all == Append(payments, [amount |-> amount, packageId |-> packageId])
           ofPkg == SelectSeq(all, LAMBDA q : q.packageId = "pkg1")
       IN /\ Len(payments) < maxPayments
          /\ payments' = all
          /\ projDoc' = [projDoc EXCEPT !.financialPercent =
                computeProjectFinancialPercent(projDoc.sanctionedAmount, all)]
          /\ pkgDoc' = IF packageId = NULL THEN pkgDoc
                ELSE [pkgDoc EXCEPT !.financialPercent =
                        computePackageFinancialPercent(pkgDoc.amount, ofPkg)]
          /\ UNCHANGED <<users, now, visits, stages, events, call, inflight>>

CreatePayment ==
  \E a \in Users, projectId \in ProjectIds, packageId \in PaymentPackageInputs,
     amount \in PaymentAmountInputs :
    PaymentRequest(a, projectId, packageId, amount, MaxPayments)

\* --------------------------------------------------------------- RollupEngine
\* lib/progress.ts.  Results are in hundredths of a percent.
clampPercent(v) == Max(0, Min(100, v))

\* A progress field a stage document does not carry (typeof is not "number").
Absent == 0 - 1

getStageEffectiveProgress(stage) ==
  IF stage.verifiedProgressPercent # Absent
  THEN clampPercent(stage.verifiedProgressPercent)
  ELSE IF stage.reportedProgressPercent # Absent
  THEN clampPercent(stage.reportedProgressPercent)
  ELSE 0

TotalWeight_HundredPerStage(sts) == 100 * Len(sts)

RECURSIVE TotalWeight(_)
TotalWeight(sts) ==
  IF sts = << >> THEN 0 ELSE sts[1].weightPercent + TotalWeight(Tail(sts))

RECURSIVE WeightedProgress(_)
WeightedProgress(sts) ==
  IF sts = << >> THEN 0
  ELSE sts[1].weightPercent * getStageEffectiveProgress(sts[1])
         + WeightedProgress(Tail(sts))

\* What recomputePackagePhysical would store for these stages.
PackagePhysicalPercent(sts) ==
  IF TotalWeight(sts) > 0
  THEN clampHundredths((WeightedProgress(sts) * 100) \div TotalWeight(sts))
  ELSE 0

\* What recomputeProjectPhysicalFromPackages would store for these package
\* documents: packages with amount <= 0 are skipped, no clamp is applied.
RECURSIVE TotalAmount(_)
TotalAmount(pkgs) ==
  IF pkgs = << >> THEN 0
  ELSE (IF pkgs[1].amount <= 0 THEN 0 ELSE pkgs[1].amount) + TotalAmount(Tail(pkgs))

RECURSIVE WeightedPhysical(_)
WeightedPhysical(pkgs) ==
  IF pkgs = << >> THEN 0
  ELSE (IF pkgs[1].amount <= 0 THEN 0 ELSE pkgs[1].amount * pkgs[1].physicalPercent)
         + WeightedPhysical(Tail(pkgs))

ProjectPhysicalFromPackages(pkgs) ==
  IF TotalAmount(pkgs) > 0 THEN WeightedPhysical(pkgs) \div TotalAmount(pkgs) ELSE 0

\* The same for the one package of the handlers' project.
ProjectPhysicalPercent(pkg) == ProjectPhysicalFromPackages(<<pkg>>)

\* computeProjectProgressBreakdown.  A missing progress field counts as 0
\* (?? 0) and effective is verified || reported.
BreakdownReported(stage) ==
  clampPercent(IF stage.reportedProgressPercent = Absent THEN 0
               ELSE stage.reportedProgressPercent)

BreakdownVerified(stage) ==
  clampPercent(IF stage.verifiedProgressPercent = Absent THEN 0
               ELSE stage.verifiedProgressPercent)

BreakdownEffective(stage) ==
  IF BreakdownVerified(stage) # 0 THEN BreakdownVerified(stage)
  ELSE BreakdownReported(stage)

RECURSIVE BreakdownWeighted(_)
BreakdownWeighted(sts) ==
  IF sts = << >> THEN 0
  ELSE sts[1].weightPercent * BreakdownEffective(sts[1])
         + BreakdownWeighted(Tail(sts))

\* The per-package step: pkgPhysical.
BreakdownPackagePhysical(sts) ==
  IF TotalWeight(sts) > 0
  THEN clampHundredths((BreakdownWeighted(sts) * 100) \div TotalWeight(sts))
  ELSE 0

\* pkgGreen and pkgJeOnly, in weight points, clamped.
RECURSIVE BreakdownGreen(_)
BreakdownGreen(sts) ==
  IF sts = << >> THEN 0
  ELSE sts[1].weightPercent * BreakdownVerified(sts[1]) + BreakdownGreen(Tail(sts))

RECURSIVE BreakdownJeOnly(_)
BreakdownJeOnly(sts) ==
  IF sts = << >> THEN 0
  ELSE (IF BreakdownVerified(sts[1]) > 0 THEN 0
        ELSE sts[1].weightPercent * BreakdownReported(sts[1]))
         + BreakdownJeOnly(Tail(sts))

\* total rupees for weighting: every amount counts, whatever its sign.
RECURSIVE SumAmounts(_)
SumAmounts(pkgs) ==
  IF pkgs = << >> THEN 0 ELSE pkgs[1].amount + SumAmounts(Tail(pkgs))

BreakdownTotalAmount(pkgs) ==
  IF SumAmounts(pkgs) <= 0 THEN Len(pkgs) ELSE SumAmounts(pkgs)

\* The argument after the call: when the total is not positive, every
\* non-positive amount of the caller's list has been overwritten with 1.
BreakdownPackagesAfter(pkgs) ==
  IF SumAmounts(pkgs) <= 0
  THEN [i \in 1..Len(pkgs) |->
          IF pkgs[i].amount <= 0 THEN [pkgs[i] EXCEPT !.amount = 1] ELSE pkgs[i]]
  ELSE pkgs

BreakdownGreenClamped(sts) == clampHundredths(BreakdownGreen(sts))

BreakdownJeOnlyClamped(sts) == clampHundredths(BreakdownJeOnly(sts))

BreakdownPart(part, sts) ==
  IF part = "physical" THEN BreakdownPackagePhysical(sts)
  ELSE IF part = "green" THEN BreakdownGreenClamped(sts)
  ELSE BreakdownJeOnlyClamped(sts)

\* Sum over the packages the loop does not skip of part(stages) * amount.
RECURSIVE BreakdownSum(_, _)
BreakdownSum(pkgs, part) ==
  IF pkgs = << >> THEN 0
  ELSE (IF pkgs[1].amount <= 0 \/ pkgs[1].stages = << >> THEN 0
        ELSE BreakdownPart(part, pkgs[1].stages) * pkgs[1].amount)
         + BreakdownSum(Tail(pkgs), part)

NoBreakdown ==
  [physicalPercent |-> 0, greenVerifiedPercent |-> 0,
   jeOnlyPercent |-> 0, offsiteVerifiedPercent |-> 0]

computeProjectProgressBreakdown(pkgs) ==
  IF pkgs = << >> THEN NoBreakdown
  ELSE LET after == BreakdownPackagesAfter(pkgs)
           totalAmount == BreakdownTotalAmount(pkgs)
       IN [physicalPercent |->
             clampHundredths(BreakdownSum(after, "physical") \div totalAmount),
           greenVerifiedPercent |->
             clampHundredths(BreakdownSum(after, "green") \div totalAmount),
           jeOnlyPercent |->
             clampHundredths(BreakdownSum(after, "jeOnly") \div totalAmount),
           offsiteVerifiedPercent |-> 0]

\* ------------------------------------------------------------ specification
Next ==
  \/ Tick
  \/ UploadFace
  \/ PostVisit
  \/ CreateStage
  \/ ReportProgress
  \/ VerifyStage
  \/ CommentProgress
  \/ CreatePayment

Spec == Init /\ [][Next]_vars

\* ------------------------------------------------- the rollup library alone
\* lib/progress.ts evaluated on its own: a list of package documents with
\* their stages is drawn, and the three exported functions are called on it
\* in any order.  call records the documents, what was last called and what
\* it returned.
RollupProgressInputs ==
  { [reported |-> 50, verified |-> Absent],
    [reported |-> 50, verified |-> 0],
    [reported |-> 80, verified |-> 90] }

RollupStage(w, pv) ==
  [weightPercent |-> w, reportedProgressPercent |-> pv.reported,
   verifiedProgressPercent |-> pv.verified]

RollupStageLists ==
  {<< >>}
    \cup {<<RollupStage(w, pv)>> : w \in {0, 100}, pv \in RollupProgressInputs}
    \cup {<<RollupStage(40, a), RollupStage(60, b)>> :
            a \in RollupProgressInputs, b \in RollupProgressInputs}

RollupAmounts == {0 - 10, 0, 10, 40}

RollupPackages ==
  {[amount |-> amt, physicalPercent |-> 0, stages |-> sts] :
     amt \in RollupAmounts, sts \in RollupStageLists}

RollupPackageLists ==
  UNION {[1..n -> RollupPackages] : n \in 0..MaxPackages}

RollupInit ==
  /\ users = InitUsers
  /\ now = 0
  /\ visits = << >>
  /\ stages = << >>
  /\ events = << >>
  /\ payments = << >>
  /\ pkgDoc = InitPackage
  /\ projDoc = InitProject
  /\ \E pkgs \in RollupPackageLists :
       call = [fn |-> "rollup", packages |-> pkgs, projectPhysical |-> 0,
               last |-> "none", lastPkg |-> 0, returned |-> 0,
               breakdown |-> NoBreakdown]
  /\ inflight = NoRequests

RollupUnchanged ==
  UNCHANGED <<users, now, visits, stages, events, payments, pkgDoc, projDoc, inflight>>

CallRecomputePackagePhysical ==
  /\ call.fn = "rollup"
  /\ \E i \in 1..Len(call.packages) :
       LET physicalPercent == PackagePhysicalPercent(call.packages[i].stages)
       IN call' = [call EXCEPT !.packages[i].physicalPercent = physicalPercent,
                               !.last = "recomputePackagePhysical",
                               !.lastPkg = i,
                               !.returned = physicalPercent]
  /\ RollupUnchanged

CallRecomputeProjectPhysicalFromPackages ==
  /\ call.fn = "rollup"
  /\ LET projectPhysicalPercent == ProjectPhysicalFromPackages(call.packages)
     IN call' = [call EXCEPT !.projectPhysical = projectPhysicalPercent,
                             !.last = "recomputeProjectPhysicalFromPackages",
                             !.lastPkg = 0,
                             !.returned = projectPhysicalPercent]
  /\ RollupUnchanged

CallComputeProjectProgressBreakdown ==
  /\ call.fn = "rollup"
  /\ call' = [call EXCEPT !.packages = BreakdownPackagesAfter(call.packages),
                          !.breakdown = computeProjectProgressBreakdown(call.packages),
                          !.last = "computeProjectProgressBreakdown",
                          !.lastPkg = 0]
  /\ RollupUnchanged

RollupNext ==
  \/ CallRecomputePackagePhysical
  \/ CallRecomputeProjectPhysicalFromPackages
  \/ CallComputeProjectProgressBreakdown

RollupSpec == RollupInit /\ [][RollupNext]_vars

\* ------------------------------------------------- the payment ledger alone
\* POST /api/payments on projects of several sanctioned amounts, with tagged
\* and untagged bills and a longer ledger.  Amounts are in lakh of rupees.
LedgerSanctionedInputs == {3, 100}
LedgerPackageAmountInputs == {10, 30}
LedgerAmountInputs == {0, 1, 25}
LedgerPackageInputs == {"pkg1", NULL}

LedgerInit ==
  /\ users = InitUsers
  /\ now = 0
  /\ visits = << >>
  /\ stages = << >>
  /\ events = << >>
  /\ payments = << >>
  /\ \E amt \in LedgerPackageAmountInputs : pkgDoc = [InitPackage EXCEPT !.amount = amt]
  /\ \E amt \in LedgerSanctionedInputs :
       projDoc = [InitProject EXCEPT !.sanctionedAmount = amt]
  /\ call = NoCall
  /\ inflight = NoRequests

LedgerCreatePayment ==
  \E a \in Users, projectId \in ProjectIds, packageId \in LedgerPackageInputs,
     amount \in LedgerAmountInputs :
    PaymentRequest(a, projectId, packageId, amount, MaxLedgerPayments)

LedgerNext == LedgerCreatePayment

LedgerSpec == LedgerInit /\ [][LedgerNext]_vars

\* ------------------------------------------------- the geofence, by geometry
\* POST /api/visits against a project document of any geometry the handler
\* can read: POINT or LINEAR, with or without a site centre, a radius and
\* route points, and GPS fixes along the road.
MaxRoutePoints == 2
RoutePointIds == <<"rp1", "rp2", "rp3">>
GeoRoutePlaces == {"km1", "km2", NoCoords}
GeoLocations ==
  {"atCentre", "onRadius", "outside", "km1", "onCorridor", "midway", "km2"}
GeoRadiusInputs == {NoTime, 0, 200}
GeoCenterInputs == {NULL, "centre"}
GeoProjectTypes == {"POINT", "LINEAR"}

GeoRoutes ==
  UNION {{[i \in 1..n |-> [id |-> RoutePointIds[i], place |-> pl[i], active |-> ac[i]]] :
            pl \in [1..n -> GeoRoutePlaces], ac \in [1..n -> BOOLEAN]} :
         n \in 0..MaxRoutePoints}

GeoInit ==
  /\ users = InitUsers
  /\ now = 0
  /\ visits = << >>
  /\ stages = << >>
  /\ events = << >>
  /\ payments = << >>
  /\ pkgDoc = InitPackage
  /\ \E type \in GeoProjectTypes, route \in GeoRoutes,
        centre \in GeoCenterInputs, radius \in GeoRadiusInputs :
       projDoc = [InitProject EXCEPT !.projectType = type, !.routePoints = route,
                                     !.siteCenter = centre,
                                     !.siteRadiusMeters = radius]
  /\ call = NoCall
  /\ inflight = NoRequests

GeoPostVisit ==
  \E a \in Users, visitType \in VisitTypeInputs, loc \in GeoLocations \cup {NoCoords} :
    VisitAt(a, visitType, TRUE, loc)

GeoNext == GeoPostVisit

GeoSpec == GeoInit /\ [][GeoNext]_vars

\* ------------------------------------------------ two field officers at work
\* Both field officers have enrolled their faces; je1 owns the package, je2
\* does not.  They visit the site and report progress, and the photo audit
\* fails or returns any of its advisories.
FieldAiOutcomes == {"error", "clean", "flagged"}

FieldInitUsers ==
  [u \in Users |->
     [photoUrl |-> isFieldRole(Role(u)), masterFaceUrl |-> isFieldRole(Role(u))]]

FieldInit ==
  /\ users = FieldInitUsers
  /\ now = 0
  /\ visits = << >>
  /\ stages = << >>
  /\ events = << >>
  /\ payments = << >>
  /\ pkgDoc = InitPackage
  /\ projDoc = InitProject
  /\ call = NoCall
  /\ inflight = NoRequests

FieldReportProgress ==
  \E a \in Users, projectId \in ProjectIds, stageId \in StageIds,
     parsed \in JePercentInputs, ai \in FieldAiOutcomes :
    ReportWith(a, projectId, stageId, parsed, ai)

FieldNext ==
  \/ Tick
  \/ PostVisit
  \/ CreateStage
  \/ FieldReportProgress

FieldSpec == FieldInit /\ [][FieldNext]_vars

\* ------------------------------------------- lib/geo.ts: the membership check
\* The haversine distance of lib/geo.ts, on the same road.
distanceMeters(a, b) ==
  IF PosOf(a) >= PosOf(b) THEN PosOf(a) - PosOf(b) ELSE PosOf(b) - PosOf(a)

DEFAULT_MARGIN_METERS == 50

isInsideProjectRadius_NoMargin(project, point, marginMeters) ==
  IF project.siteCenter = NULL
     \/ project.siteRadiusMeters = NoTime \/ project.siteRadiusMeters = 0
  THEN FALSE
  ELSE distanceMeters(project.siteCenter, point) <= project.siteRadiusMeters

\* !project.siteRadiusMeters is true of an absent radius and of radius 0.
isInsideProjectRadius(project, point, marginMeters) ==
  IF project.siteCenter = NULL
     \/ project.siteRadiusMeters = NoTime \/ project.siteRadiusMeters = 0
  THEN FALSE
  ELSE distanceMeters(project.siteCenter, point)
         <= project.siteRadiusMeters + marginMeters

\* The visit handler and the membership check against the same project
\* document: a project with or without a centre and a radius, GPS fixes at
\* the centre, on the radius, inside the margin, on it and beyond it.
MembershipLocations ==
  {"atCentre", "onRadius", "outside", "onMargin", "beyondMargin"}
MembershipMargins == {0, DEFAULT_MARGIN_METERS}

MembershipInit ==
  /\ users = InitUsers
  /\ now = 0
  /\ visits = << >>
  /\ stages = << >>
  /\ events = << >>
  /\ payments = << >>
  /\ pkgDoc = InitPackage
  /\ \E centre \in GeoCenterInputs, radius \in GeoRadiusInputs :
       projDoc = [InitProject EXCEPT !.siteCenter = centre,
                                     !.siteRadiusMeters = radius]
  /\ call = NoCall
  /\ inflight = NoRequests

MembershipPostVisit ==
  \E a \in Users, visitType \in VisitTypeInputs, loc \in MembershipLocations :
    VisitAt(a, visitType, TRUE, loc)

CallIsInsideProjectRadius ==
  \E point \in MembershipLocations, marginMeters \in MembershipMargins :
    /\ call' = [fn |-> "isInsideProjectRadius", point |-> point,
                marginMeters |-> marginMeters,
                returned |-> isInsideProjectRadius(projDoc, point, marginMeters)]
    /\ UNCHANGED <<users, now, visits, stages, events, payments, pkgDoc, projDoc, inflight>>

MembershipNext ==
  \/ MembershipPostVisit
  \/ CallIsInsideProjectRadius

MembershipSpec == MembershipInit /\ [][MembershipNext]_vars

\* ------------------------------------------------------ the risk classifiers
\* GET /api/projects, /api/admin/projects and /api/admin/projects-by-role
\* classify each project they list from its stored aggregates.  The
\* aggregates are in hundredths of a percent, so 20 percent is 2000.
computeRisk_HighAtTwenty(physicalPercent, financialPercent) ==
  LET gap == physicalPercent - financialPercent
  IN IF gap <= 0 - 2000 THEN "high"
     ELSE IF gap < 0 - 1000 THEN "medium"
     ELSE "low"

\* pages/api/projects.ts
computeRisk(physicalPercent, financialPercent) ==
  LET gap == physicalPercent - financialPercent
  IN IF gap < 0 - 2000 THEN "high"
     ELSE IF gap < 0 - 1000 THEN "medium"
     ELSE "low"

\* pages/api/admin/projects.ts, inline in the handler.
AdminProjectsRisk(p) ==
  LET gap == p.physicalPercent - p.financialPercent
  IN IF gap < 0 - 2000 THEN "high"
     ELSE IF gap < 0 - 1000 THEN "medium"
     ELSE "low"

\* pages/api/admin/projects-by-role.ts, inline in the handler.
ProjectsByRoleRisk(p) ==
  LET gap == p.physicalPercent - p.financialPercent
  IN IF gap < 0 - 2000 THEN "high"
     ELSE IF gap < 0 - 1000 THEN "medium"
     ELSE "low"

RiskPhysicalInputs == {0, 5000, 10000}
RiskFinancialInputs ==
  {0, 999, 1000, 1001, 1999, 2000, 2001, 5000, 6000, 6001, 7000, 7001, 10000}

RiskInit ==
  /\ users = InitUsers
  /\ now = 0
  /\ visits = << >>
  /\ stages = << >>
  /\ events = << >>
  /\ payments = << >>
  /\ pkgDoc = InitPackage
  /\ \E ph \in RiskPhysicalInputs, fi \in RiskFinancialInputs :
       projDoc = [InitProject EXCEPT !.physicalPercent = ph, !.financialPercent = fi]
  /\ call = NoCall
  /\ inflight = NoRequests

RiskUnchanged ==
  UNCHANGED <<users, now, visits, stages, events, payments, pkgDoc, projDoc, inflight>>

GetProjects ==
  /\ call' = [fn |-> "risk", endpoint |-> "/api/projects",
              risk |-> computeRisk(projDoc.physicalPercent, projDoc.financialPercent)]
  /\ RiskUnchanged

GetAdminProjects ==
  /\ call' = [fn |-> "risk", endpoint |-> "/api/admin/projects",
              risk |-> AdminProjectsRisk(projDoc)]
  /\ RiskUnchanged

GetAdminProjectsByRole ==
  /\ call' = [fn |-> "risk", endpoint |-> "/api/admin/projects-by-role",
              risk |-> ProjectsByRoleRisk(projDoc)]
  /\ RiskUnchanged

RiskNext == GetProjects \/ GetAdminProjects \/ GetAdminProjectsByRole

RiskSpec == RiskInit /\ [][RiskNext]_vars

\* ------------------------------------------- the admin reports page's policy
\* pages/admin/reports/index.tsx fetches /api/admin/projects and classifies
\* each row again, from the row's physicalPercent and financialPercent, with
\* its own thresholds (15 and 5 percent).
ReportsPageRisk_LenientPair(p) ==
  LET gap == p.physicalPercent - p.financialPercent
  IN IF gap < 0 - 2000 THEN "high"
     ELSE IF gap < 0 - 1000 THEN "medium"
     ELSE "low"

ReportsPageRisk(p) ==
  LET gap == p.physicalPercent - p.financialPercent
  IN IF gap < 0 - 1500 THEN "high"
     ELSE IF gap < 0 - 500 THEN "medium"
     ELSE "low"

PolicyPhysicalInputs == {0, 2500, 5000, 10000}
PolicyFinancialInputs ==
  {0, 220, 500, 501, 700, 1000, 1001, 1200, 1500, 1501, 1700, 2000, 2001,
   2720, 3700, 5220, 6200, 10000}

PolicyInit ==
  /\ users = InitUsers
  /\ now = 0
  /\ visits = << >>
  /\ stages = << >>
  /\ events = << >>
  /\ payments = << >>
  /\ pkgDoc = InitPackage
  /\ \E ph \in PolicyPhysicalInputs, fi \in PolicyFinancialInputs :
       projDoc = [InitProject EXCEPT !.physicalPercent = ph, !.financialPercent = fi]
  /\ call = NoCall
  /\ inflight = NoRequests

\* The page's effect: the row the API returned, with the API's riskLevel, and
\* the risk the page shows for it.
LoadReportsPage ==
  /\ call' = [fn |-> "reports", endpoint |-> "/admin/reports",
              apiRisk |-> AdminProjectsRisk(projDoc),
              risk |-> ReportsPageRisk(projDoc)]
  /\ RiskUnchanged

PolicyNext == GetAdminProjects \/ LoadReportsPage

PolicySpec == PolicyInit /\ [][PolicyNext]_vars

\* ------------------------------------------------ the stages of one package
\* Stage creation over a package of several stages: requests sent straight
\* to POST /api/ee/create-stage, and requests sent by the package card of the
\* dashboard, which checks the weights of the stages it has loaded.
MaxPackageStages == 3
PackageStageWeightInputs == {0, 10, 30, 40, 60, 100}

PackageCreateStage ==
  \E a \in Users, projectId \in ProjectIds, w \in PackageStageWeightInputs :
    CreateStageRequest(a, projectId, w, MaxPackageStages)

\* stages.reduce((acc, s) => acc + (s.weightPercent || 0), 0)
RECURSIVE currentTotalWeight(_)
currentTotalWeight(loaded) ==
  IF loaded = << >> THEN 0
  ELSE loaded[1].weightPercent + currentTotalWeight(Tail(loaded))

\* PackageCard.handleCreateStage over the stages the card was rendered
\* with: those stored when the dashboard was last loaded, a prefix of the
\* stored ones.
handleCreateStage ==
  \E a \in Users, w \in PackageStageWeightInputs, k \in 0..Len(stages) :
    LET loaded == SubSeq(stages, 1, k)
    IN IF w <= 0
       THEN Reject("package-card", a, 0, "weight_must_be_greater_than_0")
       ELSE IF currentTotalWeight(loaded) + w > 100
       THEN Reject("package-card", a, 0, "total_weight_cannot_exceed_100")
       ELSE CreateStageRequest(a, "p1", w, MaxPackageStages)

StageNext ==
  \/ PackageCreateStage
  \/ handleCreateStage

StageSpec == Init /\ [][StageNext]_vars

\* ---------------------------------------- POST /api/events, served concurrently
\* The handler awaits the store several times; between two awaits another
\* request can be served.  A request in flight is at one of these places:
\*   "checked": it has passed the role, percent and visit checks, uploaded
\*              its photo, read the stage and passed the monotonicity check
\*              against the value it read (currentReported);
\*   "logged":  it has also written its ProgressEvent (evtRef.set).
\* The stage update (stageRef.update) ends it.
MaxInflight == 2
RacePercentInputs == {Num(30), Num(50)}

Without(seq, i) == SubSeq(seq, 1, i - 1) \o SubSeq(seq, i + 1, Len(seq))

\* Requests that will still write a ProgressEvent.
Unlogged == {i \in 1..Len(inflight) : inflight[i].pc = "checked"}

BeginReport ==
  \E a \in Users, stageId \in StageIds, parsed \in RacePercentInputs :
    /\ isFieldRole(Role(a))
    /\ ~parsed.isNaN
    /\ LatestVisitIdx(a) # 0
    /\ ~ReportGateRejects(visits[LatestVisitIdx(a)], now)
    /\ stageId \in 1..Len(stages)
    /\ ~ReduceRejected(BoundedPercent(parsed.n), CurrentReported(stages[stageId]))
    /\ Len(inflight) < MaxInflight
    /\ Len(events) + Cardinality(Unlogged) < MaxEvents
    /\ inflight' = Append(inflight,
          [op |-> "report", pc |-> "checked", a |-> a, stageId |-> stageId,
           boundedPercent |-> BoundedPercent(parsed.n),
           currentReported |-> CurrentReported(stages[stageId])])
    /\ UNCHANGED <<users, now, visits, stages, events, payments, pkgDoc, projDoc, call>>

\* await evtRef.set(eventData), after the photo audit.
WriteReportEvent ==
  \E i \in 1..Len(inflight), ai \in AiOutcomes :
    /\ inflight[i].op = "report"
    /\ inflight[i].pc = "checked"
    /\ events' = Append(events,
          ProgressEvent(inflight[i].a, now, inflight[i].stageId,
                        inflight[i].boundedPercent, ai))
    /\ inflight' = [inflight EXCEPT ![i].pc = "logged"]
    /\ UNCHANGED <<users, now, visits, stages, payments, pkgDoc, projDoc, call>>

\* await stageRef.update({...}) by the request at place i of inflight.
UpdateStageOf(i) ==
  /\ i \in 1..Len(inflight)
  /\ inflight[i].op = "report"
  /\ inflight[i].pc = "logged"
  /\ stages' = [stages EXCEPT ![inflight[i].stageId] =
        StageAfterReport(@, inflight[i].a, inflight[i].boundedPercent, now)]
  /\ inflight' = Without(inflight, i)
  /\ UNCHANGED <<users, now, visits, events, payments, pkgDoc, projDoc, call>>

UpdateReportedStage == \E i \in 1..MaxInflight : UpdateStageOf(i)

\* A stage exists and je1 has just made a face- and geo-verified site visit.
RaceInit ==
  /\ users = InitUsers
  /\ now = 0
  /\ visits = <<VisitEvent("je1", 0, "site", TRUE,
                           GeoVerify("site", "atCentre", InitProject))>>
  /\ stages = <<NewStage(60)>>
  /\ events = << >>
  /\ payments = << >>
  /\ pkgDoc = InitPackage
  /\ projDoc = InitProject
  /\ call = NoCall
  /\ inflight = NoRequests

RaceNext ==
  \/ Tick
  \/ BeginReport
  \/ WriteReportEvent
  \/ UpdateReportedStage

RaceSpec == RaceInit /\ [][RaceNext]_vars

\* -------------------------------------- POST /api/payments, served concurrently
\* A payment request in flight is at one of these places:
\*   "recorded":  it has passed its checks and written its payment document;
\*   "read":      it has read the project's payments (ledger) and computed
\*                the project's percent from them;
\*   "projected": it has updated the project document.
\* The package update ends it.
RaceAmountInputs == {10, 25}

BeginPayment ==
  \E a \in Users, projectId \in ProjectIds, packageId \in PaymentPackageInputs,
     amount \in RaceAmountInputs :
    /\ Role(a) = "EE" \/ Role(a) = "ADMIN"
    /\ amount # 0
    /\ projectId \in Projects
    /\ Len(inflight) < MaxInflight
    /\ Len(payments) < MaxLedgerPayments
    /\ payments' = Append(payments, [amount |-> amount, packageId |-> packageId])
    /\ inflight' = Append(inflight,
          [op |-> "payment", pc |-> "recorded", packageId |-> packageId,
           sanctionedAmount |-> projDoc.sanctionedAmount, ledger |-> << >>])
    /\ UNCHANGED <<users, now, visits, stages, events, pkgDoc, projDoc, call>>

\* await db.collection("projects").doc(projectId).collection("payments").get()
ReadLedger ==
  \E i \in 1..Len(inflight) :
    /\ inflight[i].op = "payment"
    /\ inflight[i].pc = "recorded"
    /\ inflight' = [inflight EXCEPT ![i].pc = "read", ![i].ledger = payments]
    /\ UNCHANGED <<users, now, visits, stages, events, payments, pkgDoc, projDoc, call>>

\* await projectSnap.ref.update({financialPercent: newProjectFinancial})
UpdateProjectFinancial ==
  \E i \in 1..Len(inflight) :
    /\ inflight[i].op = "payment"
    /\ inflight[i].pc = "read"
    /\ projDoc' = [projDoc EXCEPT !.financialPercent =
          computeProjectFinancialPercent(inflight[i].sanctionedAmount,
                                         inflight[i].ledger)]
    /\ inflight' = [inflight EXCEPT ![i].pc = "projected"]
    /\ UNCHANGED <<users, now, visits, stages, events, payments, pkgDoc, call>>

\* The package is read and updated from the ledger read earlier.
UpdatePackageFinancial ==
  \E i \in 1..Len(inflight) :
    /\ inflight[i].op = "payment"
    /\ inflight[i].pc = "projected"
    /\ pkgDoc' = IF inflight[i].packageId = NULL THEN pkgDoc
          ELSE [pkgDoc EXCEPT !.financialPercent =
                  computePackageFinancialPercent(pkgDoc.amount,
                    SelectSeq(inflight[i].ledger, LAMBDA q : q.packageId = "pkg1"))]
    /\ inflight' = Without(inflight, i)
    /\ UNCHANGED <<users, now, visits, stages, events, payments, projDoc, call>>

PayRaceNext ==
  \/ BeginPayment
  \/ ReadLedger
  \/ UpdateProjectFinancial
  \/ UpdatePackageFinancial

PayRaceSpec == Init /\ [][PayRaceNext]_vars

\* ------------------------------------------- verification among later visits
\* The field officer and the supervisor have both enrolled; the ledger has
\* room for a visit after a verification.
MaxSourceVisits == 3

SourceInitUsers ==
  [u \in Users |->
     [photoUrl |-> u \in {"je1", "sdo1"}, masterFaceUrl |-> u \in {"je1", "sdo1"}]]

SourceInit ==
  /\ users = SourceInitUsers
  /\ now = 0
  /\ visits = << >>
  /\ stages = << >>
  /\ events = << >>
  /\ payments = << >>
  /\ pkgDoc = InitPackage
  /\ projDoc = InitProject
  /\ call = NoCall
  /\ inflight = NoRequests

SourcePostVisit ==
  \E a \in Users, visitType \in VisitTypeInputs, loc \in Locations :
    VisitAtMost(a, visitType, TRUE, loc, MaxSourceVisits)

SourceNext ==
  \/ Tick
  \/ SourcePostVisit
  \/ CreateStage
  \/ ReportProgress
  \/ VerifyStage

SourceSpec == SourceInit /\ [][SourceNext]_vars

\* ===================================================================== claims
\* The latest visit of officer a qualifies a progress report at the clock
\* reading now: a site visit, face verified, geo verified, at most 24 h old.
QualifyingFieldVisitNow(a) ==
  /\ LatestVisitIdx(a) # 0
  /\ LET v == visits[LatestVisitIdx(a)]
     IN /\ v.visitType = "site"
        /\ v.faceVerified = TRUE
        /\ v.geoVerified = TRUE
        /\ now - v.createdAt <= ONE_DAY

\* A step that writes a progress report: a ProgressEvent is added.
ReportWritten == Len(events') > Len(events)

\* A step that writes a verification onto stage i.
VerificationWritten(i) ==
  /\ i \in 1..Len(stages) /\ i \in 1..Len(stages')
  /\ <<stages'[i].verifiedProgressPercent, stages'[i].verificationSource,
       stages'[i].lastVerifiedBy, stages'[i].lastVerifiedAt>>
       # <<stages[i].verifiedProgressPercent, stages[i].verificationSource,
           stages[i].lastVerifiedBy, stages[i].lastVerifiedAt>>

\* C1: a progress report by an officer whose visit gate passes, with a clamped
\* percent below the stage's stored reportedProgressPercent, is rejected: the
\* stage document is left as it was and no ProgressEvent is written.  (A step
\* that touches the stages or the ledger is the step of no such request.)
C1_ReducedReportLeavesStageAndLedger ==
  [][\/ stages' = stages /\ events' = events
     \/ \A a \in Users, stageId \in StageIds, parsed \in JePercentInputs :
          ( /\ stageId \in 1..Len(stages)
            /\ ~parsed.isNaN
            /\ clampPercent(parsed.n) < stages[stageId].reportedProgressPercent
            /\ QualifyingFieldVisitNow(a) )
          => ~ReportRequest(a, "p1", stageId, parsed)]_vars

\* A stage stands at 50 and an enrolled field officer with a qualifying visit
\* can submit a lower percent.
C1_Witness ==
  \E a \in Users :
    /\ isFieldRole(Role(a))
    /\ QualifyingFieldVisitNow(a)
    /\ Len(stages) >= 1
    /\ stages[1].reportedProgressPercent = 50
    /\ stages[1].lastReportedAt < now

\* C2: over any run, a stage's reportedProgressPercent never decreases.
C2_ReportedNeverDecreases ==
  [][\A i \in 1..Len(stages) :
       /\ i \in 1..Len(stages')
       /\ stages'[i].reportedProgressPercent >= stages[i].reportedProgressPercent]_vars

\* Two reports were accepted on the stage, the first at 0 and a later one at
\* 50, and the stage has been verified at a lower value since.
C2_Witness ==
  /\ Len(events) = 2
  /\ events[1].reportedProgressPercent = 0
  /\ events[2].reportedProgressPercent = 50
  /\ stages[1].reportedProgressPercent = 50
  /\ stages[1].lastVerifiedBy # NULL
  /\ stages[1].verifiedProgressPercent < 50

\* C3: a progress report is written only when its author's most recent visit
\* exists and is a site visit with faceVerified and geoVerified true and
\* t - timestamp <= 24 h; an author with no visit writes nothing.
C3_ReportNeedsQualifyingVisit ==
  [][ReportWritten =>
       /\ QualifyingFieldVisitNow(events'[Len(events')].createdBy)
       /\ events'[Len(events')].createdAt = now
       /\ \A i \in 1..Len(stages') :
            (i \in 1..Len(stages) /\ stages'[i] # stages[i])
              => QualifyingFieldVisitNow(stages'[i].lastReportedBy)]_vars

\* A report stands in the ledger, written at this clock reading, while a
\* second officer of a field role has no qualifying visit.
C3_Witness ==
  /\ Len(events) >= 1
  /\ events[Len(events)].createdAt = now
  /\ QualifyingFieldVisitNow(events[Len(events)].createdBy)
  /\ \E b \in Users : isFieldRole(Role(b)) /\ ~QualifyingFieldVisitNow(b)

\* C4 as stated: a verification is written only when the verifier's most
\* recent visit has faceVerified true, t - timestamp <= 24 h and is either an
\* office visit or a site visit with geoVerified true.
C4_AsStated ==
  [][\A i \in 1..Len(stages') :
       VerificationWritten(i) =>
         LET s == stages'[i].lastVerifiedBy
         IN /\ LatestVisitIdx(s) # 0
            /\ LET v == visits[LatestVisitIdx(s)]
               IN /\ v.faceVerified = TRUE
                  /\ now - v.createdAt <= ONE_DAY
                  /\ \/ v.visitType = "office"
                     \/ v.visitType = "site" /\ v.geoVerified = TRUE]_vars

\* C4, amended: a verification is written only when the verifier's most
\* recent visit exists, has faceVerified true and t - timestamp <= 24 h.  The
\* visit's type and geoVerified do not gate it: they only choose the
\* verificationSource stamped, "site" for a geo-verified site visit and
\* "office" for every other visit.
C4_VerificationNeedsFaceVerifiedVisit ==
  [][\A i \in 1..Len(stages') :
       VerificationWritten(i) =>
         LET s == stages'[i].lastVerifiedBy
         IN /\ LatestVisitIdx(s) # 0
            /\ LET v == visits[LatestVisitIdx(s)]
               IN /\ v.faceVerified = TRUE
                  /\ now - v.createdAt <= ONE_DAY
                  /\ stages'[i].verificationSource =
                       IF v.visitType = "site" /\ v.geoVerified = TRUE
                       THEN "site" ELSE "office"]_vars

\* A stage carries a verification by an officer all of whose visits are site
\* visits outside the geofence.
C4_Witness ==
  \E i \in 1..Len(stages) :
    /\ stages[i].lastVerifiedBy # NULL
    /\ stages[i].verificationSource = "office"
    /\ \A j \in VisitsBy(stages[i].lastVerifiedBy) :
         visits[j].visitType = "site" /\ visits[j].geoVerified = FALSE

\* C5: the 24-hour window is inclusive for both gates.  A visit that satisfies
\* the gate's visit predicate qualifies an action exactly when the action's
\* clock reading is at most 24 h after the visit: accepted at exactly 24 h,
\* rejected at 24 h and one minute.
C5_WindowInclusive ==
  \A a \in Users :
    LatestVisitIdx(a) # 0 =>
      LET v == visits[LatestVisitIdx(a)]
      IN /\ ( /\ isFieldRole(Role(a))
              /\ v.visitType = "site" /\ v.faceVerified /\ v.geoVerified
              /\ Len(stages) >= 1 /\ Len(events) < MaxEvents )
            => ( now - v.createdAt <= ONE_DAY
                   <=> ENABLED <<ReportRequest(a, "p1", 1, Num(50))>>_vars )
         /\ ( /\ isSDO(Role(a))
              /\ v.faceVerified
              /\ v.visitType = "office" \/ (v.visitType = "site" /\ v.geoVerified)
              /\ Len(events) >= 1 )
            => ( now - v.createdAt <= ONE_DAY
                   <=> \E percent \in {0, 40} :
                         ENABLED <<VerifyRequest(a, "p1", events[1].stageId, 1, percent)>>_vars )

\* A report was accepted at exactly 24 h after its author's latest visit.
C5_Witness ==
  \E i \in 1..Len(stages) :
    /\ stages[i].lastReportedAt = now
    /\ LatestVisitIdx(stages[i].lastReportedBy) # 0
    /\ now - visits[LatestVisitIdx(stages[i].lastReportedBy)].createdAt = ONE_DAY

\* C6: the face-match gate fails closed.  With the bypass flag off, a visit
\* submission whose comparison errors, whose service is unavailable or whose
\* similarity is below the threshold (90 unless configured) is rejected: a
\* VisitEvent is written only on a decision of "score at or above the
\* threshold", and what is written carries faceVerified = true.
C6_FaceMatchFailsClosed ==
  [][\/ visits' = visits
     \/ /\ visits'[Len(visits')].faceVerified = TRUE
        /\ \A env \in Envs, outcome \in FaceOutcomes :
             ( /\ ~env.ALLOW_FAKE_FACE_MATCH
               /\ \/ ~env.rekognition
                  \/ outcome = ServiceError
                  \/ outcome < (IF env.minScore = 0 THEN 90 ELSE env.minScore) )
             => \A a \in Users, visitType \in VisitTypeInputs :
                  ~VisitRequest(a, visitType, env, outcome)]_vars

\* A visit has been accepted, every stored visit is face verified, and an
\* enrolled officer can submit another one, which the gate will decide.
C6_Witness ==
  /\ visits # << >>
  /\ Len(visits) < MaxVisits
  /\ \A i \in 1..Len(visits) : visits[i].faceVerified = TRUE
  /\ \E a \in Users : users[a].masterFaceUrl /\ VisitsBy(a) = {}

\* C7: a visit submission by an actor with no enrolled reference image is
\* rejected: every VisitEvent in the ledger is by an actor who has one
\* (enrolment is never undone), and an actor without one has no VisitEvent.
C7_UnenrolledActorHasNoVisit ==
  /\ \A i \in 1..Len(visits) : users[visits[i].createdBy].masterFaceUrl = TRUE
  /\ \A a \in Users : ~users[a].masterFaceUrl => VisitsBy(a) = {}

\* An officer enrolled after construction has a visit in the ledger while
\* other officers of allowed roles are still not enrolled.
C7_Witness ==
  /\ \E i \in 1..Len(visits) :
       visits[i].createdBy \in Enrollers /\ users[visits[i].createdBy].masterFaceUrl
  /\ \E a \in Users : Role(a) \in AllowedVisitRoles /\ ~users[a].masterFaceUrl

\* C8: the visit ledger is append-only: every VisitEvent present in a state is
\* present, with the same contents, in every later state.
C8_VisitLedgerAppendOnly ==
  [][/\ Len(visits') >= Len(visits)
     /\ \A i \in 1..Len(visits) : visits'[i] = visits[i]]_vars

\* The ledger is full, and a report, a verification and a payment have been
\* written after its visits.
C8_Witness ==
  /\ Len(visits) = MaxVisits
  /\ events # << >>
  /\ events[1].sdoVerifiedBy # NULL
  /\ payments # << >>

\* C9 as stated: once written, a ProgressEvent is never mutated or deleted.
C9_AsStated ==
  [][/\ Len(events') >= Len(events)
     /\ \A i \in 1..Len(events) : events'[i] = events[i]]_vars

\* What a ProgressEvent records of the report that created it.
ReportOf(evt) ==
  <<evt.id, evt.eventType, evt.packageId, evt.stageId, evt.createdBy,
    evt.createdAt, evt.reportedProgressPercent, evt.ai>>

\* C9, amended: once written, a ProgressEvent is never deleted and what it
\* records of the report (author, time, stage, reported percent, photo audit)
\* never changes.  The document itself is updated in place: a verification
\* writes sdoVerifiedPercent, sdoVerifiedBy and verificationSource onto it,
\* and its author's comment request overwrites jeComment.
C9_ReportOfEventImmutable ==
  [][/\ Len(events') >= Len(events)
     /\ \A i \in 1..Len(events) : ReportOf(events'[i]) = ReportOf(events[i])]_vars

\* An event that has been verified and then commented on by its author.
C9_Witness ==
  \E i \in 1..Len(events) :
    /\ events[i].sdoVerifiedBy # NULL
    /\ events[i].sdoVerifiedPercent # events[i].reportedProgressPercent
    /\ events[i].jeComment # ""

\* C10 as stated: when an accepted progress report or stage verification
\* completes, the stored package physicalPercent equals the rollup of its
\* stages and the stored project physicalPercent the rollup of its packages.
C10_AsStated ==
  [][(ReportWritten \/ \E i \in 1..Len(stages) : VerificationWritten(i))
       => /\ pkgDoc'.physicalPercent = PackagePhysicalPercent(stages')
          /\ projDoc'.physicalPercent = ProjectPhysicalPercent(pkgDoc')]_vars

\* Effective stage progress as the specification defines it: the verified
\* percent if present and > 0, else the reported percent, else 0.
ClaimedEffective(stage) ==
  IF stage.verifiedProgressPercent # Absent /\ stage.verifiedProgressPercent > 0
  THEN Max(0, Min(100, stage.verifiedProgressPercent))
  ELSE IF stage.reportedProgressPercent # Absent
  THEN Max(0, Min(100, stage.reportedProgressPercent))
  ELSE 0

RECURSIVE ClaimedWeightSum(_)
ClaimedWeightSum(sts) ==
  IF sts = << >> THEN 0 ELSE sts[1].weightPercent + ClaimedWeightSum(Tail(sts))

RECURSIVE ClaimedWeightedSum(_)
ClaimedWeightedSum(sts) ==
  IF sts = << >> THEN 0
  ELSE sts[1].weightPercent * ClaimedEffective(sts[1]) + ClaimedWeightedSum(Tail(sts))

\* clamp of sum(weight * effective) / sum(weight), in hundredths of a percent.
ClaimedPackagePhysical(sts) ==
  IF ClaimedWeightSum(sts) = 0 THEN 0
  ELSE Max(0, Min(10000, (ClaimedWeightedSum(sts) * 100) \div ClaimedWeightSum(sts)))

\* C11 as stated: for every list of stages, what recomputePackagePhysical
\* stores and what the per-package step of computeProjectProgressBreakdown
\* computes both equal clamp(sum(weight * effective) / sum(weight)) with
\* effective = verified if present and > 0, else reported, else 0, and 0 when
\* the total weight is 0 (74 for [{40, 50, 0}, {60, 80, 90}]).
C11_AsStated ==
  call.fn = "rollup" =>
    \A i \in 1..Len(call.packages) :
      /\ (call.last = "recomputePackagePhysical" /\ call.lastPkg = i)
           => call.packages[i].physicalPercent
                = ClaimedPackagePhysical(call.packages[i].stages)
      /\ BreakdownPackagePhysical(call.packages[i].stages)
           = ClaimedPackagePhysical(call.packages[i].stages)

\* sum(amount * physical) / sum(amount) over the packages with amount > 0,
\* and 0 when that total is 0; physical(i) is package i's physicalPercent.
RECURSIVE ClaimedAmountSum(_, _)
ClaimedAmountSum(pkgs, n) ==
  IF n = 0 THEN 0
  ELSE (IF pkgs[n].amount > 0 THEN pkgs[n].amount ELSE 0) + ClaimedAmountSum(pkgs, n - 1)

RECURSIVE ClaimedPhysicalSum(_, _, _)
ClaimedPhysicalSum(pkgs, physical, n) ==
  IF n = 0 THEN 0
  ELSE (IF pkgs[n].amount > 0 THEN pkgs[n].amount * physical[n] ELSE 0)
         + ClaimedPhysicalSum(pkgs, physical, n - 1)

ClaimedProjectPhysical(pkgs, physical) ==
  IF ClaimedAmountSum(pkgs, Len(pkgs)) = 0 THEN 0
  ELSE ClaimedPhysicalSum(pkgs, physical, Len(pkgs))
         \div ClaimedAmountSum(pkgs, Len(pkgs))

\* C12 as stated: for every list of packages, the project physicalPercent
\* stored by recomputeProjectPhysicalFromPackages and the physicalPercent
\* returned by computeProjectProgressBreakdown both equal
\* sum(amount * physicalPercent) / sum(amount) over the packages with
\* amount > 0 only, and 0 when that total amount is 0.
C12_AsStated ==
  [][/\ call'.last = "recomputeProjectPhysicalFromPackages"
          => call'.projectPhysical =
               ClaimedProjectPhysical(call.packages,
                 [i \in 1..Len(call.packages) |-> call.packages[i].physicalPercent])
     /\ call'.last = "computeProjectProgressBreakdown"
          => call'.breakdown.physicalPercent =
               ClaimedProjectPhysical(call.packages,
                 [i \in 1..Len(call.packages) |->
                    BreakdownPackagePhysical(call.packages[i].stages)])]_vars

\* C19 as stated: the rollup is idempotent.  When one of the three rollup
\* functions is called again right after itself on the same documents, with
\* no write in between, the second call stores and returns what the first
\* did: it changes nothing.
C19_AsStated ==
  [][(call.fn = "rollup" /\ call'.last = call.last /\ call'.lastPkg = call.lastPkg)
       => call' = call]_vars

\* The list sts with its k-th stage replaced by two stages of weights w1 and
\* weight - w1 that carry the same reported and verified values.
SplitStage(sts, k, w1) ==
  SubSeq(sts, 1, k - 1)
    \o <<[sts[k] EXCEPT !.weightPercent = w1],
         [sts[k] EXCEPT !.weightPercent = sts[k].weightPercent - w1]>>
    \o SubSeq(sts, k + 1, Len(sts))

RECURSIVE ClaimedPaid(_, _)
ClaimedPaid(ps, n) ==
  IF n = 0 THEN 0 ELSE ps[n].amount + ClaimedPaid(ps, n - 1)

\* f, in hundredths of a percent, is exactly clamp(paid / base * 100).
IsExactPercentOf(f, paid, base) ==
  IF paid <= 0 THEN f = 0
  ELSE IF paid >= base THEN f = 10000
  ELSE f * base = paid * 10000

\* clamp(paid / base * 100) rounded to two decimals, in hundredths of a
\* percent, and 0 when base is not positive.
RoundedPercentOf(paid, base) ==
  IF base <= 0 THEN 0
  ELSE Max(0, Min(10000, (2 * paid * 10000 + base) \div (2 * base)))

\* C13 as stated: after a payment submission completes, the project's stored
\* financialPercent equals clamp(sum of all payment amounts / sanctionedAmount
\* * 100), and when the payment is tagged with a package, the package's
\* financialPercent equals the same over the payments tagged with it and the
\* package amount.
C13_AsStated ==
  [][payments' # payments =>
       /\ IsExactPercentOf(projDoc'.financialPercent,
                           ClaimedPaid(payments', Len(payments')),
                           projDoc.sanctionedAmount)
       /\ payments'[Len(payments')].packageId # NULL
            => IsExactPercentOf(pkgDoc'.financialPercent,
                 ClaimedPaid(SelectSeq(payments', LAMBDA q : q.packageId = "pkg1"),
                             Len(SelectSeq(payments', LAMBDA q : q.packageId = "pkg1"))),
                 pkgDoc.amount)]_vars

\* C13, amended: after a payment submission completes, the project's stored
\* financialPercent equals clamp(sum / sanctionedAmount * 100) rounded to two
\* decimals; when the payment is tagged with a package the package's
\* financialPercent equals the same, rounded to two decimals, over the
\* payments tagged with it and the package amount; an untagged payment leaves
\* the package's financialPercent as it was.
C13_FinancialPercentRounded ==
  [][payments' # payments =>
       /\ projDoc'.financialPercent =
            RoundedPercentOf(ClaimedPaid(payments', Len(payments')),
                             projDoc.sanctionedAmount)
       /\ pkgDoc'.financialPercent =
            IF payments'[Len(payments')].packageId = NULL
            THEN pkgDoc.financialPercent
            ELSE RoundedPercentOf(
                   ClaimedPaid(SelectSeq(payments', LAMBDA q : q.packageId = "pkg1"),
                               Len(SelectSeq(payments', LAMBDA q : q.packageId = "pkg1"))),
                   pkgDoc.amount)]_vars

\* Two bills of 1 lakh on a project sanctioned at 3 lakh: 66.67 is stored;
\* the tagged one of them makes 3.33 of a package of 30 lakh.
C13_Witness ==
  /\ Len(payments) = 2
  /\ projDoc.sanctionedAmount = 3
  /\ projDoc.financialPercent = 6667
  /\ pkgDoc.amount = 30
  /\ pkgDoc.financialPercent = 333

\* C14: each of the three listing endpoints classifies a project by
\* gap = physicalPercent - financialPercent as high iff gap < -20, medium iff
\* -20 <= gap < -10 and low iff gap >= -10; gap = -20 is medium and gap = -10
\* is low.
C14_RiskTiers ==
  call.fn = "risk" =>
    LET gap == projDoc.physicalPercent - projDoc.financialPercent
    IN /\ call.risk = "high" <=> gap < 0 - 2000
       /\ call.risk = "medium" <=> (0 - 2000 <= gap /\ gap < 0 - 1000)
       /\ call.risk = "low" <=> gap >= 0 - 1000
       /\ gap = 0 - 2000 => call.risk = "medium"
       /\ gap = 0 - 1000 => call.risk = "low"

\* /api/projects has classified a project whose gap is exactly -20.
C14_Witness ==
  /\ call.fn = "risk"
  /\ call.endpoint = "/api/projects"
  /\ projDoc.physicalPercent - projDoc.financialPercent = 0 - 2000
  /\ call.risk = "medium"

\* The visit document a step has just written.
NewVisit == visits'[Len(visits')]

IsPointProject ==
  /\ projDoc.projectType = "POINT"
  /\ projDoc.siteCenter # NULL
  /\ projDoc.siteRadiusMeters # NoTime

\* C15: for a POINT project with a site centre and a numeric radius, a site
\* visit with valid coordinates is recorded with geoMethod POINT_RADIUS and
\* with geoVerified true exactly when its distance to the centre is at most
\* siteRadiusMeters, with no margin; a fix at the centre is verified for
\* every radius >= 0, radius 0 included.
C15_PointRadiusInclusive ==
  [][\/ visits' = visits
     \/ ~IsPointProject
     \/ \A a \in Users, loc \in GeoLocations :
          VisitAt(a, "site", TRUE, loc) =>
            /\ NewVisit.geoMethod = "POINT_RADIUS"
            /\ NewVisit.geoVerified
                 = (haversineMeters(loc, projDoc.siteCenter)
                      <= projDoc.siteRadiusMeters)
            /\ (PosOf(loc) = PosOf(projDoc.siteCenter)
                  /\ projDoc.siteRadiusMeters >= 0 => NewVisit.geoVerified)]_vars

\* A POINT project of radius 0 holds a verified visit made at its centre and
\* an unverified one made 200 m away.
C15_Witness ==
  /\ IsPointProject
  /\ projDoc.siteRadiusMeters = 0
  /\ \E i, j \in 1..Len(visits) :
       /\ visits[i].geoMethod = "POINT_RADIUS"
       /\ visits[i].distanceMeters = 0
       /\ visits[i].geoVerified
       /\ visits[j].geoMethod = "POINT_RADIUS"
       /\ visits[j].distanceMeters = 200
       /\ ~visits[j].geoVerified

IsLinearProject ==
  /\ projDoc.projectType = "LINEAR"
  /\ projDoc.routePoints # << >>

\* The candidate route points: the usable ones among those with
\* active !== false, or among all of them when none is active.
ActiveRoutePoints ==
  {i \in 1..Len(projDoc.routePoints) : projDoc.routePoints[i].active}

Candidates ==
  {i \in (IF ActiveRoutePoints # {} THEN ActiveRoutePoints
          ELSE 1..Len(projDoc.routePoints)) :
     projDoc.routePoints[i].place # NoCoords}

CorridorRadius ==
  IF projDoc.siteRadiusMeters # NoTime THEN projDoc.siteRadiusMeters ELSE 300

C17_AsStated ==
  [][\A i \in 1..Len(stages) :
       ( /\ i \in 1..Len(stages')
         /\ stages'[i].reportedProgressPercent # stages[i].reportedProgressPercent )
       => stages'[i].lastReportedBy = pkgDoc.ownerJeId]_vars

\* The ProgressEvent a step has just written.
NewEvent == events'[Len(events')]

\* C18: the photo audit never influences progress.  An accepted progress
\* submission leaves the stage with reportedProgressPercent equal to the
\* submitted clamped value and verifiedProgressPercent as it was, whatever
\* the audit returned and also when it failed; whether the submission is
\* accepted does not depend on the audit's outcome; and when the audit fails
\* the ProgressEvent is appended without advisory fields.
C18_AdvisoryNeverInfluencesProgress ==
  /\ [][\/ events' = events
        \/ \A a \in Users, stageId \in StageIds, parsed \in JePercentInputs,
              ai \in FieldAiOutcomes :
             ReportWith(a, "p1", stageId, parsed, ai) =>
               /\ stages'[stageId].reportedProgressPercent = clampPercent(parsed.n)
               /\ stages'[stageId].verifiedProgressPercent
                    = stages[stageId].verifiedProgressPercent
               /\ \A i \in 1..Len(stages) : i # stageId => stages'[i] = stages[i]
               /\ NewEvent.reportedProgressPercent = clampPercent(parsed.n)
               /\ (ai = "error" => NewEvent.ai = NULL)]_vars
  /\ [](\A a \in Users, stageId \in StageIds, parsed \in JePercentInputs,
           ai \in FieldAiOutcomes :
          (ENABLED (ReportWith(a, "p1", stageId, parsed, ai) /\ ReportWritten))
            <=> (ENABLED (ReportWith(a, "p1", stageId, parsed, "error")
                            /\ ReportWritten)))

\* The ledger holds two accepted reports for the same stage, one written
\* after the audit failed and one carrying an advisory, and the stage stands
\* at the value of the later one.
C18_Witness ==
  /\ Len(events) = 2
  /\ events[1].stageId = events[2].stageId
  /\ events[1].ai = NULL
  /\ events[2].ai = "flagged"
  /\ stages[events[2].stageId].reportedProgressPercent
       = events[2].reportedProgressPercent

\* The membership check has just been evaluated for the fix loc with the
\* default margin.
MembershipCheckedAt(loc) ==
  /\ call.fn = "isInsideProjectRadius"
  /\ call.point = loc
  /\ call.marginMeters = DEFAULT_MARGIN_METERS

\* C21: the two geofence policies are distinct.  For a POINT project of
\* radius R > 0 and a fix at distance d with R < d <= R + 50, the visit
\* handler records geoVerified = false while isInsideProjectRadius with the
\* default margin returns true.
C21_StrictAndMarginPoliciesDiffer ==
  [][\/ visits' = visits
     \/ ~IsPointProject
     \/ \A a \in Users, loc \in MembershipLocations :
          ( /\ MembershipCheckedAt(loc)
            /\ projDoc.siteRadiusMeters > 0
            /\ haversineMeters(loc, projDoc.siteCenter) > projDoc.siteRadiusMeters
            /\ haversineMeters(loc, projDoc.siteCenter)
                 <= projDoc.siteRadiusMeters + 50
            /\ VisitAt(a, "site", TRUE, loc) )
          => (NewVisit.geoVerified = FALSE /\ call.returned = TRUE)]_vars

\* A 200 m site holds an unverified visit made 230 m from its centre, and
\* the membership check has returned true for that fix.
C21_Witness ==
  /\ IsPointProject
  /\ projDoc.siteRadiusMeters = 200
  /\ MembershipCheckedAt("outside")
  /\ call.returned = TRUE
  /\ \E i \in 1..Len(visits) :
       /\ visits[i].distanceMeters = 230
       /\ visits[i].geoMethod = "POINT_RADIUS"
       /\ ~visits[i].geoVerified

\* C30 as stated: for a POINT project with a centre and a radius >= 0,
\* whenever the visit handler records geoVerified = true for a fix,
\* isInsideProjectRadius with the default margin returns true for it.
C30_AsStated ==
  [][\/ visits' = visits
     \/ ~IsPointProject
     \/ projDoc.siteRadiusMeters < 0
     \/ \A a \in Users, loc \in MembershipLocations :
          ( /\ MembershipCheckedAt(loc)
            /\ VisitAt(a, "site", TRUE, loc)
            /\ NewVisit.geoVerified )
          => call.returned = TRUE]_vars

\* C22 as stated: the two risk policies diverge at gap = -12, which the
\* listing API (thresholds -20 and -10) classifies as medium and the admin
\* reports page (thresholds -15 and -5) as high; at gap = -2.2 both classify
\* as low.
C22_AsStated ==
  call.fn = "reports" =>
    LET gap == projDoc.physicalPercent - projDoc.financialPercent
    IN /\ gap = 0 - 1200 => (call.apiRisk = "medium" /\ call.risk = "high")
       /\ gap = 0 - 220 => (call.apiRisk = "low" /\ call.risk = "low")

\* C22, amended: the listing API (thresholds -20 and -10) and the admin
\* reports page (thresholds -15 and -5) disagree exactly for
\* -20 <= gap < -15, medium for the API and high for the page, and for
\* -10 <= gap < -5, low for the API and medium for the page.  At gap = -12
\* both classify as medium and at gap = -2.2 both as low.
C22_PoliciesDivergeBetweenThresholds ==
  call.fn = "reports" =>
    LET gap == projDoc.physicalPercent - projDoc.financialPercent
    IN /\ (0 - 2000 <= gap /\ gap < 0 - 1500)
            => (call.apiRisk = "medium" /\ call.risk = "high")
       /\ (0 - 1000 <= gap /\ gap < 0 - 500)
            => (call.apiRisk = "low" /\ call.risk = "medium")
       /\ ~(0 - 2000 <= gap /\ gap < 0 - 1500)
            /\ ~(0 - 1000 <= gap /\ gap < 0 - 500)
            => call.apiRisk = call.risk
       /\ gap = 0 - 1200 => (call.apiRisk = "medium" /\ call.risk = "medium")
       /\ gap = 0 - 220 => (call.apiRisk = "low" /\ call.risk = "low")

\* The reports page has shown a project whose gap is -17 as high while the
\* API called it medium.
C22_Witness ==
  /\ call.fn = "reports"
  /\ projDoc.physicalPercent - projDoc.financialPercent = 0 - 1700
  /\ call.apiRisk = "medium"
  /\ call.risk = "high"

\* C23 as stated: stage weights are checked at creation, so after any
\* sequence of accepted stage creations the weightPercent of the package's
\* stages sum to at most 100.
C23_AsStated == currentTotalWeight(stages) <= 100

\* C24: progress reports are read-then-write without compare-and-set.  Each
\* concurrent submission checks monotonicity against the value it read and
\* then stores its own value, whatever is stored by then: the last write wins
\* and nothing is merged, so the stored reportedProgressPercent can end below
\* a value stored before it.
C24_LastWriteWinsNoMerge ==
  [][\A i \in 1..Len(inflight) :
       UpdateStageOf(i) =>
         /\ stages'[inflight[i].stageId].reportedProgressPercent
              = inflight[i].boundedPercent
         /\ inflight[i].boundedPercent >= inflight[i].currentReported]_vars

\* Every submission has completed, and the stage stands below the value of a
\* recorded report that was stored in it: the later write lowered it.
C24_Witness ==
  /\ inflight = NoRequests
  /\ \E i \in 1..Len(events) :
       /\ events[i].reportedProgressPercent = 50
       /\ stages[events[i].stageId].reportedProgressPercent = 30
       /\ stages[events[i].stageId].lastReportedAt >= events[i].createdAt

\* C25 as stated: once every payment submission has completed, the project's
\* stored financialPercent is the clamped totalPaid / sanctionedAmount x 100
\* over all recorded payments, whatever the interleaving.
C25_AsStated ==
  inflight = NoRequests =>
    projDoc.financialPercent
      = computeProjectFinancialPercent(projDoc.sanctionedAmount, payments)

\* The visits of officer a none of whose other visits is more recent.
NewestVisitsOf(a) ==
  {i \in VisitsBy(a) : \A j \in VisitsBy(a) : visits[j].createdAt <= visits[i].createdAt}

\* Visit v satisfies the report gate, respectively the verification gate, at
\* the clock reading now.
QualifiesReport(v) ==
  /\ v.visitType = "site" /\ v.faceVerified = TRUE /\ v.geoVerified = TRUE
  /\ now - v.createdAt <= ONE_DAY

QualifiesVerification(v) ==
  v.faceVerified = TRUE /\ now - v.createdAt <= ONE_DAY

VerificationStampOf(stage) ==
  <<stage.verificationSource, stage.lastVerifiedBy, stage.lastVerifiedAt>>

\* C27: an accepted verification stamps the stage with verificationSource
\* "site" exactly when the verifier's most recent visit is a site visit with
\* geoVerified = true, and "office" otherwise, together with lastVerifiedBy
\* and lastVerifiedAt; a step that writes a visit or a progress report leaves
\* the stamp of every stage as it was.
C27_SourceStampedFromTriggeringVisit ==
  [][/\ \A i \in 1..Len(stages') :
          VerificationWritten(i) =>
            /\ stages'[i].lastVerifiedAt = now
            /\ \E v \in NewestVisitsOf(stages'[i].lastVerifiedBy) :
                 stages'[i].verificationSource =
                   IF visits[v].visitType = "site" /\ visits[v].geoVerified = TRUE
                   THEN "site" ELSE "office"
     /\ (visits' # visits \/ ReportWritten) =>
          \A i \in 1..Len(stages) :
            VerificationStampOf(stages'[i]) = VerificationStampOf(stages[i])]_vars

\* A stage was verified as "site", its verifier has since recorded a visit
\* that is not a geo-verified site visit, and a progress report for the stage
\* came after the verification: the stamp still says "site".
C27_Witness ==
  \E i \in 1..Len(stages) :
    /\ stages[i].verificationSource = "site"
    /\ stages[i].lastVerifiedBy # NULL
    /\ stages[i].lastReportedAt > stages[i].lastVerifiedAt
    /\ \E v \in NewestVisitsOf(stages[i].lastVerifiedBy) :
         /\ visits[v].createdAt > stages[i].lastVerifiedAt
         /\ ~(visits[v].visitType = "site" /\ visits[v].geoVerified)

\* The fields of a stage that belong to the reported track and to the
\* verified track.
ReportedTrackOf(stage) ==
  <<stage.reportedProgressPercent, stage.lastReportedBy, stage.lastReportedAt>>

VerifiedTrackOf(stage) ==
  <<stage.verifiedProgressPercent, stage.verificationSource,
    stage.lastVerifiedBy, stage.lastVerifiedAt>>

\* C28: the two progress tracks are independently owned.  A step that writes
\* a progress report leaves verifiedProgressPercent, verificationSource,
\* lastVerifiedBy and lastVerifiedAt of every stage unchanged, and a step that
\* writes a verification leaves reportedProgressPercent, lastReportedBy and
\* lastReportedAt of every stage unchanged.
C28_TracksIndependentlyOwned ==
  [][\A i \in 1..Len(stages) :
       /\ ReportWritten => VerifiedTrackOf(stages'[i]) = VerifiedTrackOf(stages[i])
       /\ VerificationWritten(i)
            => ReportedTrackOf(stages'[i]) = ReportedTrackOf(stages[i])]_vars

\* One report of the stage was verified above what it reported and another
\* below; the stage stands verified below its reported percent and below an
\* earlier verified percent.
C28_Witness ==
  /\ Len(events) = 2
  /\ events[1].sdoVerifiedBy # NULL
  /\ events[1].sdoVerifiedPercent > events[1].reportedProgressPercent
  /\ events[2].sdoVerifiedBy # NULL
  /\ events[2].sdoVerifiedPercent < events[2].reportedProgressPercent
  /\ events[2].stageId = events[1].stageId
  /\ LET st == stages[events[2].stageId]
     IN /\ st.verifiedProgressPercent < events[1].sdoVerifiedPercent
        /\ st.verifiedProgressPercent < st.reportedProgressPercent

\* C29: every VisitEvent stored in the project's visit collection has
\* faceVerified = true, so on a stored visit the faceVerified condition of
\* the two recency guards never decides: the report guard rejects exactly
\* on the visit's type, geoVerified and age, the verification guard exactly
\* on its age.
C29_StoredVisitsAreFaceVerified ==
  \A i \in 1..Len(visits) :
    /\ visits[i].faceVerified = TRUE
    /\ \A t \in Instants :
         /\ VerifyGateRejects(visits[i], t) <=> t - visits[i].createdAt > ONE_DAY
         /\ ReportGateRejects(visits[i], t)
              <=> \/ visits[i].visitType # "site"
                  \/ visits[i].geoVerified # TRUE
                  \/ t - visits[i].createdAt > ONE_DAY

\* The ledger holds visits of two officers, a site visit and an office visit.
C29_Witness ==
  \E i, j \in 1..Len(visits) :
    /\ visits[i].createdBy # visits[j].createdBy
    /\ visits[i].visitType = "site"
    /\ visits[j].visitType = "office"

====
